---- MODULE Spec2Model ----
(***************************************************************************)
(* A model of ajax/advi.py: the ADVI class, its constructor checks, the    *)
(* dispatch on vi_type, and the three operations init, loss_fn and apply.  *)
(*                                                                         *)
(* Python values are represented as follows.                               *)
(*   - None / a missing attribute: the empty sequence <<>>; a present      *)
(*     value v: the one-element sequence <<v>>.                            *)
(*   - a dict: a function whose DOMAIN is the dict's key set.              *)
(*   - a float: an exact rational <<num, den>> with den > 0, in lowest     *)
(*     terms; the log densities of the stand-in distributions are          *)
(*     integers.                                                           *)
(*   - the three construction-time assertions of __init__ are named after  *)
(*     the error each one reports: line 48 KeyMismatchError, line 78       *)
(*     ZeroBatchViolation, lines 52-54 RankSpecificationError.             *)
(***************************************************************************)
EXTENDS Integers, Sequences, FiniteSets, TLC

VARIABLES pc, args, err, self, params, ret

vars == <<pc, args, err, self, params, ret>>

(***************************************************************************)
(* Bounds of the model.                                                    *)
(***************************************************************************)
MaxBatchRank == 1
MaxRank == 1
MaxSeed == 1
MaxSamples == 2
MaxDataSize == 2
MaxBatchLen == 2

None == <<>>
Some(v) == <<v>>

\* The parameter names a prior or a bijector may use, in canonical order.
KeyOrder == <<"a", "b">>

Keys == {KeyOrder[i] : i \in DOMAIN KeyOrder}

KeySets == (SUBSET Keys) \ {{}}

\* The transforms of the bijector library that the model uses.
Transforms == {"Identity", "Exp"}

\* A prior distribution: its family and the length of its batch_shape.
PriorDists == [family : {"Exponential"}, batch_rank : 0..MaxBatchRank]

Priors == UNION {[ks -> PriorDists] : ks \in KeySets}

Bijectors == UNION {[ks -> Transforms] : ks \in KeySets}

ViTypes == {"mean_field", "full_rank", "low_rank", "meanfield"}

Ranks == {None} \cup {Some(r) : r \in 1..MaxRank}

\* ordered_posterior_bijectors: None, or a list of transforms.
OrderedPosteriorBijectors ==
    {None, Some(<<"Identity", "Softplus">>), Some(<<"Identity", "Softplus", "Identity">>)}

\* The values a raw parameter leaf takes, the seeds and the aux data.
RawVals == {0, 1}

Seeds == 0..MaxSeed

AuxData == {5}

\* The data set the batches are cut from.
DataAt(j) == j % 2

Batches == {[j \in 1..n |-> DataAt(j)] : n \in 1..MaxBatchLen}

(***************************************************************************)
(* Exact rational arithmetic, standing for the float arithmetic of         *)
(* lines 94, 95 and 98.                                                    *)
(***************************************************************************)
Abs(x) == IF x < 0 THEN -x ELSE x

RECURSIVE GCD(_, _)
GCD(x, y) == IF y = 0 THEN x ELSE GCD(y, x % y)

RNorm(n, d) ==
    LET g == GCD(Abs(n), Abs(d))
        s == IF d < 0 THEN -1 ELSE 1
    IN <<(s * n) \div g, (s * d) \div g>>

RInt(n) == <<n, 1>>

RSub(x, y) == RNorm(x[1] * y[2] - y[1] * x[2], x[2] * y[2])

RAdd(x, y) == RNorm(x[1] * y[2] + y[1] * x[2], x[2] * y[2])

RMulInt(x, k) == RNorm(x[1] * k, x[2])

RDivInt(x, k) == RNorm(x[1], x[2] * k)

RECURSIVE RSum(_)
RSum(s) == IF s = <<>> THEN RInt(0) ELSE RAdd(Head(s), RSum(Tail(s)))

RECURSIVE ISum(_)
ISum(s) == IF s = <<>> THEN 0 ELSE Head(s) + ISum(Tail(s))

\* The sequence f with every element computed: an array, not a lazy function.
Array(f) == f \o <<>>

(***************************************************************************)
(* The bijector library: forward transform and forward log-det-Jacobian.   *)
(* Exp is taken to base 2 so that its values on the integers 0.. are       *)
(* integers; Softplus is a second strictly positive, strictly increasing   *)
(* transform.                                                              *)
(***************************************************************************)
Forward(t, x) ==
    CASE t = "Identity" -> x
      [] t = "Exp" -> 2 ^ x
      [] t = "Softplus" -> x + 2
      [] t = "FillScaleTriL" -> x + 1

ForwardLogDetJacobian(t, x) ==
    CASE t = "Identity" -> 0
      [] t = "Exp" -> x
      [] t = "Softplus" -> 1
      [] t = "FillScaleTriL" -> 1

(***************************************************************************)
(* The distribution library.  A surrogate distribution is a record         *)
(* [family, dim, rank, leaves]: leaves[1] is the location and the other    *)
(* leaves are the scale parameters, each leaf one number that fills the    *)
(* leaf's whole shape.  Sampling is reparameterised: a deterministic       *)
(* function of the parameters and of noise derived from the seed.          *)
(***************************************************************************)
Noise(seed, i) == (seed + i) % 2

Sample(dist, seed) ==
    Array([i \in 1..dist.dim |->
        dist.leaves[1]
        + dist.leaves[2] * (IF dist.family = "MultivariateNormalTriL"
                            THEN ISum([j \in 1..i |-> Noise(seed, j)])
                            ELSE Noise(seed, i))
        + (IF dist.family = "MultivariateNormalDiagPlusLowRank"
           THEN dist.leaves[3] * dist.rank[1] * Noise(seed, 0)
           ELSE 0)])

LogProb(dist, z) ==
    0 - ISum([i \in 1..dist.dim |-> (z[i] - dist.leaves[1]) * (z[i] - dist.leaves[1])])
      - dist.dim * dist.leaves[2]

\* log density of one named distribution at x: a prior distribution as given,
\* or the pushforward of one through the inverse of a transform.
LogProbOf(d, x) ==
    IF d.family = "Transformed"
    THEN (0 - Forward(d.inverse_of, x)) + ForwardLogDetJacobian(d.inverse_of, x)
    ELSE 0 - x

\* jax.random.split(seed, n): n sub-seeds, a function of (seed, n) alone.
Split(seed, n) == [i \in 1..n |-> 3 * seed + i]

CanonicalKeys(S) == SelectSeq(KeyOrder, LAMBDA k : k \in S)

TreeSum(tree) ==
    LET ks == CanonicalKeys(DOMAIN tree)
    IN ISum([i \in 1..Len(ks) |-> tree[ks[i]]])

(***************************************************************************)
(* The helpers imported from .base and .utils (lines 3-14).                *)
(***************************************************************************)
inverse_transform_dist(prior, bijector) ==
    [k \in DOMAIN prior |->
        [family |-> "Transformed", base |-> prior[k], inverse_of |-> bijector[k]]]

transform_tree(tree, bijector) ==
    [k \in DOMAIN tree |-> Forward(bijector[k], tree[k])]

transform_dist_params(dist, bijectors) ==
    [dist EXCEPT !.leaves = [i \in DOMAIN dist.leaves |-> Forward(bijectors[i], dist.leaves[i])]]

log_prob_dist(dists, tree) ==
    TreeSum([k \in DOMAIN tree |-> LogProbOf(dists[k], tree[k])])

Initializer(seed, i) == (seed + i) % Cardinality(RawVals)

initialize_params(posterior, seed) ==
    [posterior EXCEPT !.leaves = [i \in DOMAIN posterior.leaves |-> Initializer(seed, i)]]

\* The unravel function of a builder: the canonical key order of the tree.
Unravel(unravel_fn, z) ==
    [k \in {unravel_fn[i] : i \in DOMAIN unravel_fn} |->
        z[CHOOSE i \in DOMAIN unravel_fn : unravel_fn[i] = k]]

Build(family, approx_normal_prior, rank, defaults, ordered_posterior_bijectors) ==
    LET bijectors == IF ordered_posterior_bijectors = None
                     THEN defaults
                     ELSE ordered_posterior_bijectors[1]
    IN IF Len(bijectors) # Len(defaults)
       THEN [err |-> "BijectorArityError"]
       ELSE [err |-> "",
             posterior |-> [family |-> family,
                            dim |-> Cardinality(DOMAIN approx_normal_prior),
                            rank |-> rank,
                            leaves |-> [i \in DOMAIN defaults |-> 0]],
             unravel_fn |-> CanonicalKeys(DOMAIN approx_normal_prior),
             posterior_params_bijector |-> bijectors]

get_mean_field(approx_normal_prior, ordered_posterior_bijectors) ==
    Build("MultivariateNormalDiag", approx_normal_prior, None,
          <<"Identity", "Exp">>, ordered_posterior_bijectors)

get_low_rank(approx_normal_prior, rank, ordered_posterior_bijectors) ==
    Build("MultivariateNormalDiagPlusLowRank", approx_normal_prior, rank,
          <<"Identity", "Exp", "Identity">>, ordered_posterior_bijectors)

get_full_rank(approx_normal_prior, ordered_posterior_bijectors) ==
    Build("MultivariateNormalTriL", approx_normal_prior, None,
          <<"Identity", "FillScaleTriL">>, ordered_posterior_bijectors)

\* The user's log-likelihood: called with the transformed parameter tree, aux,
\* the batch and the Params as keyword arguments.
get_log_likelihood(likelihood_params, aux, batch, kwargs) ==
    aux - ISum([j \in DOMAIN batch |-> (batch[j] + j) * TreeSum(likelihood_params)])
        - kwargs.posterior.leaves[1]

(***************************************************************************)
(* class ADVI.  An instance is a record of its attributes; an attribute    *)
(* that no statement has assigned is None.                                 *)
(***************************************************************************)
NoAttributes ==
    [prior |-> None, bijector |-> None, get_log_likelihood |-> None, vi_type |-> None,
     approx_normal_prior |-> None, posterior |-> None, unravel_fn |-> None,
     posterior_params_bijector |-> None]

Raise(e) == [err |-> e, self |-> NoAttributes]

\* A variant that looks at the first distribution only.
check_prior_zero_batch_FirstOnly(prior) ==
    prior[CanonicalKeys(DOMAIN prior)[1]].batch_rank = 0

\* Lines 75-78: the sum of the batch ranks of all prior distributions is 0.
check_prior_zero_batch(prior) ==
    TreeSum([k \in DOMAIN prior |-> prior[k].batch_rank]) = 0

\* A variant whose full_rank branch calls the mean-field builder.
SelectBuilder_CopyPaste(approx_normal_prior, vi_type, rank, ordered_posterior_bijectors) ==
    IF vi_type = "mean_field"
    THEN Some(get_mean_field(approx_normal_prior, ordered_posterior_bijectors))
    ELSE IF vi_type = "low_rank"
    THEN Some(get_low_rank(approx_normal_prior, rank, ordered_posterior_bijectors))
    ELSE IF vi_type = "full_rank"
    THEN Some(get_mean_field(approx_normal_prior, ordered_posterior_bijectors))
    ELSE None

\* Lines 62-73: the builder chosen by vi_type; no branch for any other value.
SelectBuilder(approx_normal_prior, vi_type, rank, ordered_posterior_bijectors) ==
    IF vi_type = "mean_field"
    THEN Some(get_mean_field(approx_normal_prior, ordered_posterior_bijectors))
    ELSE IF vi_type = "low_rank"
    THEN Some(get_low_rank(approx_normal_prior, rank, ordered_posterior_bijectors))
    ELSE IF vi_type = "full_rank"
    THEN Some(get_full_rank(approx_normal_prior, ordered_posterior_bijectors))
    ELSE None

\* Lines 56-73: the attributes assigned once the three checks have passed.
Assemble(prior, bijector, log_likelihood, vi_type, rank, ordered_posterior_bijectors) ==
    LET approx_normal_prior == inverse_transform_dist(prior, bijector)
        built == SelectBuilder(approx_normal_prior, vi_type, rank,
                               ordered_posterior_bijectors)
        base == [NoAttributes EXCEPT
                    !.prior = Some(prior),
                    !.bijector = Some(bijector),
                    !.get_log_likelihood = Some(log_likelihood),
                    !.vi_type = Some(vi_type),
                    !.approx_normal_prior = Some(approx_normal_prior)]
    IN IF built = None
       THEN [err |-> "", self |-> base]
       ELSE IF built[1].err # ""
       THEN Raise(built[1].err)
       ELSE [err |-> "",
             self |-> [base EXCEPT
                          !.posterior = Some(built[1].posterior),
                          !.unravel_fn = Some(built[1].unravel_fn),
                          !.posterior_params_bijector =
                              Some(built[1].posterior_params_bijector)]]

\* A variant that checks the rank before the keys and the batch shapes.
ADVI_init_RankFirst(prior, bijector, log_likelihood, vi_type, rank, ordered_posterior_bijectors) ==
    IF (vi_type = "low_rank") # (rank # None)
    THEN Raise("RankSpecificationError")
    ELSE IF DOMAIN bijector # DOMAIN prior
    THEN Raise("KeyMismatchError")
    ELSE IF ~check_prior_zero_batch(prior)
    THEN Raise("ZeroBatchViolation")
    ELSE Assemble(prior, bijector, log_likelihood, vi_type, rank,
                  ordered_posterior_bijectors)

\* A variant that only requires a rank for low_rank, and accepts one otherwise.
ADVI_init_RankOneWay(prior, bijector, log_likelihood, vi_type, rank, ordered_posterior_bijectors) ==
    IF DOMAIN bijector # DOMAIN prior
    THEN Raise("KeyMismatchError")
    ELSE IF ~check_prior_zero_batch(prior)
    THEN Raise("ZeroBatchViolation")
    ELSE IF (vi_type = "low_rank") /\ (rank = None)
    THEN Raise("RankSpecificationError")
    ELSE Assemble(prior, bijector, log_likelihood, vi_type, rank,
                  ordered_posterior_bijectors)

\* Lines 22-73: the constructor, as [err, self]; err = "" when it returns.
\* The checks run in the order of the lines: keys (48), batch shapes (51),
\* rank (52-54); the first that fails raises.
ADVI_init(prior, bijector, log_likelihood, vi_type, rank, ordered_posterior_bijectors) ==
    IF DOMAIN bijector # DOMAIN prior
    THEN Raise("KeyMismatchError")
    ELSE IF ~check_prior_zero_batch(prior)
    THEN Raise("ZeroBatchViolation")
    ELSE IF (vi_type = "low_rank") # (rank # None)
    THEN Raise("RankSpecificationError")
    ELSE Assemble(prior, bijector, log_likelihood, vi_type, rank,
                  ordered_posterior_bijectors)

\* Lines 80-81.  Every operation returns [err, out, calls, params, self]: what
\* it raised, what it returned, the calls it made on its collaborators, and
\* the Params tree and the instance as the call left them.
init(this, seed) ==
    IF this.posterior = None
    THEN [err |-> "AttributeError", out |-> None, calls |-> <<>>, self |-> this]
    ELSE [err |-> "",
          out |-> Some([posterior |-> initialize_params(this.posterior[1], seed)]),
          calls |-> <<>>, self |-> this]

\* A variant that scales the log-likelihood by batch size over data size.
loss_fn_per_sample_SwappedScale(this, tree, posterior, batch, aux, data_size, seed) ==
    LET sample == Sample(posterior, seed)
        q_log_prob == LogProb(posterior, sample)
        sample_tree == Unravel(this.unravel_fn[1], sample)
        p_log_prob == log_prob_dist(this.approx_normal_prior[1], sample_tree)
        transformed_sample_tree == transform_tree(sample_tree, this.bijector[1])
        log_likelihood == get_log_likelihood(transformed_sample_tree, aux, batch, tree)
        scaled == RMulInt(RDivInt(RInt(log_likelihood), data_size), Len(batch))
    IN [seed |-> seed,
        sample_of |-> posterior,
        sample |-> sample,
        log_prob_of |-> posterior,
        log_prob_at |-> sample,
        log_prob_dist_of |-> this.approx_normal_prior[1],
        log_prob_dist_at |-> sample_tree,
        likelihood_params |-> transformed_sample_tree,
        likelihood_aux |-> aux,
        likelihood_batch |-> batch,
        likelihood_kwargs |-> tree,
        value |-> RDivInt(RSub(RInt(q_log_prob - p_log_prob), scaled), data_size)]

\* A variant that hands the unconstrained sample tree to the log-likelihood.
loss_fn_per_sample_Untransformed(this, tree, posterior, batch, aux, data_size, seed) ==
    LET sample == Sample(posterior, seed)
        q_log_prob == LogProb(posterior, sample)
        sample_tree == Unravel(this.unravel_fn[1], sample)
        p_log_prob == log_prob_dist(this.approx_normal_prior[1], sample_tree)
        transformed_sample_tree == transform_tree(sample_tree, this.bijector[1])
        log_likelihood == get_log_likelihood(sample_tree, aux, batch, tree)
        scaled == RMulInt(RDivInt(RInt(log_likelihood), Len(batch)), data_size)
    IN [seed |-> seed,
        sample_of |-> posterior,
        sample |-> sample,
        log_prob_of |-> posterior,
        log_prob_at |-> sample,
        log_prob_dist_of |-> this.approx_normal_prior[1],
        log_prob_dist_at |-> sample_tree,
        likelihood_params |-> sample_tree,
        likelihood_aux |-> aux,
        likelihood_batch |-> batch,
        likelihood_kwargs |-> tree,
        value |-> RDivInt(RSub(RInt(q_log_prob - p_log_prob), scaled), data_size)]

\* Lines 87-95: one Monte-Carlo sample.  The record lists, for each
\* collaborator called, the arguments it was called with (sample_of: the
\* distribution sampled; log_prob_of, log_prob_at: posterior.log_prob;
\* log_prob_dist_of, log_prob_dist_at: log_prob_dist; likelihood_*: the user's
\* log-likelihood), the sample drawn, and the value returned on line 95.
loss_fn_per_sample(this, tree, posterior, batch, aux, data_size, seed) ==
    LET sample == Sample(posterior, seed)
        q_log_prob == LogProb(posterior, sample)
        sample_tree == Unravel(this.unravel_fn[1], sample)
        p_log_prob == log_prob_dist(this.approx_normal_prior[1], sample_tree)
        transformed_sample_tree == transform_tree(sample_tree, this.bijector[1])
        log_likelihood == get_log_likelihood(transformed_sample_tree, aux, batch, tree)
        scaled == RMulInt(RDivInt(RInt(log_likelihood), Len(batch)), data_size)
    IN [seed |-> seed,
        sample_of |-> posterior,
        sample |-> sample,
        log_prob_of |-> posterior,
        log_prob_at |-> sample,
        log_prob_dist_of |-> this.approx_normal_prior[1],
        log_prob_dist_at |-> sample_tree,
        likelihood_params |-> transformed_sample_tree,
        likelihood_aux |-> aux,
        likelihood_batch |-> batch,
        likelihood_kwargs |-> tree,
        value |-> RDivInt(RSub(RInt(q_log_prob - p_log_prob), scaled), data_size)]

\* A variant that stores the transformed parameters back into the Params tree.
loss_fn_InPlace(this, tree, batch, aux, data_size, seed, n_samples) ==
    IF this.posterior_params_bijector = None
    THEN [err |-> "AttributeError", out |-> None, calls |-> <<>>,
          params |-> tree, self |-> this]
    ELSE LET posterior == transform_dist_params(tree.posterior,
                                                this.posterior_params_bijector[1])
             seeds == Split(seed, n_samples)
             per == Array([i \in 1..n_samples |->
                              loss_fn_per_sample(this, tree, posterior, batch, aux,
                                                 data_size, seeds[i])])
         IN [err |-> "",
             out |-> Some(RDivInt(RSum([i \in 1..n_samples |-> per[i].value]),
                                  n_samples)),
             calls |-> per, params |-> [posterior |-> posterior], self |-> this]

\* Lines 83-98: the mean over the sub-seeds of the per-sample values.
loss_fn(this, tree, batch, aux, data_size, seed, n_samples) ==
    IF this.posterior_params_bijector = None
    THEN [err |-> "AttributeError", out |-> None, calls |-> <<>>,
          params |-> tree, self |-> this]
    ELSE LET posterior == transform_dist_params(tree.posterior,
                                                this.posterior_params_bijector[1])
             seeds == Split(seed, n_samples)
             per == Array([i \in 1..n_samples |->
                              loss_fn_per_sample(this, tree, posterior, batch, aux,
                                                 data_size, seeds[i])])
         IN [err |-> "",
             out |-> Some(RDivInt(RSum([i \in 1..n_samples |-> per[i].value]),
                                  n_samples)),
             calls |-> per, params |-> tree, self |-> this]

\* A variant that bundles the raw parameters, not the transformed ones.
apply_Raw(this, tree) ==
    IF this.posterior_params_bijector = None
    THEN [err |-> "AttributeError", out |-> None, calls |-> <<>>,
          params |-> tree, self |-> this]
    ELSE [err |-> "",
          out |-> Some([posterior |-> tree.posterior,
                        approx_normal_prior |-> this.approx_normal_prior[1],
                        bijector |-> this.bijector[1]]),
          calls |-> <<>>, params |-> tree, self |-> this]

\* Lines 100-103.
apply(this, tree) ==
    IF this.posterior_params_bijector = None
    THEN [err |-> "AttributeError", out |-> None, calls |-> <<>>,
          params |-> tree, self |-> this]
    ELSE [err |-> "",
          out |-> Some([posterior |->
                            transform_dist_params(tree.posterior,
                                                  this.posterior_params_bijector[1]),
                        approx_normal_prior |-> this.approx_normal_prior[1],
                        bijector |-> this.bijector[1]]),
          calls |-> <<>>, params |-> tree, self |-> this]

(***************************************************************************)
(* The state machine: a caller constructs an instance, then calls init,    *)
(* loss_fn and apply in any order, one call at a time, while an external   *)
(* optimizer replaces the raw parameters between calls.  ret holds the     *)
(* call in progress until the caller has taken its result.                 *)
(***************************************************************************)
NoCall == [op |-> "none", err |-> "", out |-> None, calls |-> <<>>]

Init ==
    /\ pc = "start"
    /\ args = None
    /\ err = ""
    /\ self = NoAttributes
    /\ params = None
    /\ ret = NoCall

Construct ==
    /\ pc = "start"
    /\ \E prior \in Priors, bijector \in Bijectors, vi_type \in ViTypes,
          rank \in Ranks, opb \in OrderedPosteriorBijectors :
          LET r == ADVI_init(prior, bijector, "log_likelihood", vi_type, rank, opb)
          IN /\ args' = Some([prior |-> prior, bijector |-> bijector,
                              vi_type |-> vi_type, rank |-> rank,
                              ordered_posterior_bijectors |-> opb])
             /\ err' = r.err
             /\ self' = r.self
             /\ pc' = IF r.err = "" THEN "constructed" ELSE "failed"
    /\ UNCHANGED <<params, ret>>

\* The caller keeps the Params tree that init returns.
CallInit ==
    /\ pc = "constructed"
    /\ ret = NoCall
    /\ \E seed \in Seeds :
          LET r == init(self, seed)
          IN /\ ret' = [op |-> "init", seed |-> seed, err |-> r.err, out |-> r.out,
                        calls |-> r.calls]
             /\ self' = r.self
             /\ params' = IF r.err = "" THEN r.out ELSE params
    /\ UNCHANGED <<pc, args, err>>

\* The optimizer loop: replaces the raw parameters of the Params tree.
OptimizerStep ==
    /\ pc = "constructed"
    /\ ret = NoCall
    /\ params # None
    /\ \E leaves \in [DOMAIN params[1].posterior.leaves -> RawVals] :
          /\ leaves # params[1].posterior.leaves
          /\ params' = Some([posterior |-> [params[1].posterior EXCEPT !.leaves = leaves]])
    /\ UNCHANGED <<pc, args, err, self, ret>>

CallLossFn ==
    /\ pc = "constructed"
    /\ ret = NoCall
    /\ params # None
    /\ \E batch \in Batches, aux \in AuxData, data_size \in 1..MaxDataSize,
          seed \in Seeds, n_samples \in 1..MaxSamples :
          LET r == loss_fn(self, params[1], batch, aux, data_size, seed, n_samples)
          IN /\ ret' = [op |-> "loss_fn", params |-> params[1], batch |-> batch,
                        aux |-> aux, data_size |-> data_size, seed |-> seed,
                        n_samples |-> n_samples, err |-> r.err, out |-> r.out,
                        calls |-> r.calls]
             /\ self' = r.self
             /\ params' = Some(r.params)
    /\ UNCHANGED <<pc, args, err>>

CallApply ==
    /\ pc = "constructed"
    /\ ret = NoCall
    /\ params # None
    /\ LET r == apply(self, params[1])
       IN /\ ret' = [op |-> "apply", params |-> params[1], err |-> r.err,
                     out |-> r.out, calls |-> r.calls]
          /\ self' = r.self
          /\ params' = Some(r.params)
    /\ UNCHANGED <<pc, args, err>>

\* The caller takes the result of the call.
Return ==
    /\ ret # NoCall
    /\ ret' = NoCall
    /\ UNCHANGED <<pc, args, err, self, params>>

Next ==
    \/ Construct
    \/ CallInit
    \/ OptimizerStep
    \/ CallLossFn
    \/ CallApply
    \/ Return

Spec == Init /\ [][Next]_vars

(***************************************************************************)
(* Properties.                                                             *)
(***************************************************************************)
Constructing == args # None

KeysDiffer == DOMAIN args[1].prior # DOMAIN args[1].bijector

SomeBatched == \E k \in DOMAIN args[1].prior : args[1].prior[k].batch_rank # 0

RankInconsistent == (args[1].rank # None) # (args[1].vi_type = "low_rank")

\* Section 4.3: the number of raw parameters of each family's surrogate.
RawParameterCount(vi_type) == IF vi_type = "low_rank" THEN 3 ELSE 2

OverrideFits ==
    \/ args[1].ordered_posterior_bijectors = None
    \/ Len(args[1].ordered_posterior_bijectors[1]) = RawParameterCount(args[1].vi_type)

\* The surrogate that the raw parameters of a Params tree realise.
Realised(tree) ==
    [tree.posterior EXCEPT
        !.leaves = [i \in DOMAIN tree.posterior.leaves |->
                       Forward(self.posterior_params_bijector[1][i],
                               tree.posterior.leaves[i])]]

\* The named tree of a flat draw: key k takes the component at k's place in
\* the canonical order of the prior's keys.
Named(z) ==
    LET ks == CanonicalKeys(DOMAIN args[1].prior)
    IN [k \in DOMAIN args[1].prior |-> z[CHOOSE i \in 1..Len(ks) : ks[i] = k]]

Constrained(tree) == [k \in DOMAIN tree |-> Forward(args[1].bijector[k], tree[k])]

ApproxNormalPrior ==
    [k \in DOMAIN args[1].prior |->
        [family |-> "Transformed", base |-> args[1].prior[k],
         inverse_of |-> args[1].bijector[k]]]

LossReturned == ret.op = "loss_fn" /\ ret.err = ""

\* C1: the value loss_fn returns is the mean, over the n_samples sub-seeds
\* split from the seed, of (q - p - (ll / batch_size) * data_size) / data_size,
\* with q, p and ll the surrogate log density, the unconstrained-prior log
\* density and the log-likelihood of that sub-seed's draw.  Stated without
\* division: loss * (n * D * B) = sum over the sub-seeds of (q - p) * B - ll * D.
C1_LossIsMeanOfPerSampleLoss ==
    LossReturned =>
        LET n == ret.n_samples
            D == ret.data_size
            B == Len(ret.batch)
            seeds == Split(ret.seed, n)
            q(i) == LogProb(Realised(ret.params), Sample(Realised(ret.params), seeds[i]))
            tree(i) == Named(Sample(Realised(ret.params), seeds[i]))
            p(i) == TreeSum([k \in DOMAIN tree(i) |->
                               LogProbOf(ApproxNormalPrior[k], tree(i)[k])])
            ll(i) == get_log_likelihood(Constrained(tree(i)), ret.aux, ret.batch,
                                        ret.params)
            loss == ret.out[1]
        IN /\ loss[2] > 0
           /\ loss[1] * (n * D * B)
                = loss[2] * ISum([i \in 1..n |-> (q(i) - p(i)) * B - ll(i) * D])

\* C1 witness: a loss over two samples of a batch smaller than the data set,
\* whose value is not a whole number.
C1_Witness ==
    /\ LossReturned
    /\ ret.n_samples = 2
    /\ Len(ret.batch) = 1
    /\ ret.data_size = 2
    /\ ret.out[1][2] > 1

\* C2: a constructor call whose prior and bijector have different key sets
\* fails with KeyMismatchError whatever vi_type, rank and
\* ordered_posterior_bijectors are, and yields no instance.
C2_KeyMismatchAlwaysRaises ==
    (Constructing /\ KeysDiffer) =>
        /\ pc = "failed"
        /\ err = "KeyMismatchError"
        /\ self = NoAttributes

\* C2 witness: a call with different key sets that also breaks the batch-shape
\* and rank rules and carries an override list, failing on the keys.
C2_Witness ==
    /\ Constructing
    /\ KeysDiffer
    /\ SomeBatched
    /\ RankInconsistent
    /\ args[1].ordered_posterior_bijectors # None
    /\ err = "KeyMismatchError"

\* C3 as stated: construction fails with RankSpecificationError exactly when
\* (rank is not None) differs from (vi_type == "low_rank").
C3_AsStated ==
    Constructing => ((err = "RankSpecificationError") <=> RankInconsistent)

\* C3 as amended: construction fails with RankSpecificationError exactly when
\* the key sets are equal, every prior distribution has batch rank zero, and
\* (rank is not None) differs from (vi_type == "low_rank").
C3_RankErrorAfterEarlierChecks ==
    Constructing =>
        ((err = "RankSpecificationError")
            <=> (~KeysDiffer /\ ~SomeBatched /\ RankInconsistent))

\* C3 witness: a rank given with mean_field, failing on the rank.
C3_Witness ==
    /\ Constructing
    /\ args[1].vi_type = "mean_field"
    /\ args[1].rank # None
    /\ err = "RankSpecificationError"

\* C4 as stated: a prior with at least one distribution of nonzero batch rank
\* always fails with ZeroBatchViolation.
C4_AsStated ==
    (Constructing /\ SomeBatched) => err = "ZeroBatchViolation"

\* C4 as amended: when the key sets are equal, construction fails with
\* ZeroBatchViolation exactly when at least one prior distribution has a
\* nonzero batch rank, whatever the batch ranks of the others; and no call
\* with such a prior constructs an instance.
C4_ZeroBatchAfterKeyCheck ==
    /\ (Constructing /\ ~KeysDiffer) => ((err = "ZeroBatchViolation") <=> SomeBatched)
    /\ (Constructing /\ SomeBatched) => pc = "failed"

\* C4 witness: two prior distributions, one of batch rank zero and one not,
\* failing on the batch shape.
C4_Witness ==
    /\ Constructing
    /\ \E k \in DOMAIN args[1].prior : args[1].prior[k].batch_rank = 0
    /\ SomeBatched
    /\ err = "ZeroBatchViolation"

\* C5: with equal key sets, all-zero batch ranks, a vi_type among the three
\* families, a rank given exactly for low_rank and an override list (if any)
\* of the family's arity, construction succeeds, and in every later state the
\* surrogate, the unravel function and the params bijector of the instance
\* are those of the builder of that family (low_rank with the rank).
C5_BuilderMatchesViType ==
    (/\ Constructing
     /\ ~KeysDiffer
     /\ ~SomeBatched
     /\ ~RankInconsistent
     /\ args[1].vi_type \in {"mean_field", "full_rank", "low_rank"}
     /\ OverrideFits) =>
        LET opb == args[1].ordered_posterior_bijectors
            built == CASE args[1].vi_type = "mean_field" ->
                              get_mean_field(ApproxNormalPrior, opb)
                       [] args[1].vi_type = "full_rank" ->
                              get_full_rank(ApproxNormalPrior, opb)
                       [] args[1].vi_type = "low_rank" ->
                              get_low_rank(ApproxNormalPrior, args[1].rank, opb)
        IN /\ pc = "constructed"
           /\ err = ""
           /\ self.vi_type = Some(args[1].vi_type)
           /\ self.posterior = Some(built.posterior)
           /\ self.unravel_fn = Some(built.unravel_fn)
           /\ self.posterior_params_bijector = Some(built.posterior_params_bijector)

\* C5 witness: a full_rank instance that has served init, an optimizer step
\* and an apply call.
C5_Witness ==
    /\ pc = "constructed"
    /\ args[1].vi_type = "full_rank"
    /\ ret.op = "apply"
    /\ params # None
    /\ params[1].posterior.leaves = <<1, 1>>

\* C6 as stated: a constructor call that does not raise yields an instance
\* whose surrogate, unravel function and params bijector are all set, and no
\* operation on a constructed instance meets a missing attribute.
C6_AsStated ==
    /\ pc = "constructed" =>
          /\ self.posterior # None
          /\ self.unravel_fn # None
          /\ self.posterior_params_bijector # None
    /\ ret.err # "AttributeError"

\* C8: once the instance is constructed no step changes its attributes, and
\* a loss_fn or apply call leaves the Params tree it was passed as it was.
C8_CallsChangeNothing ==
    [][pc = "constructed" =>
          /\ self' = self
          /\ (ret'.op \in {"loss_fn", "apply"} =>
                 /\ params' = params
                 /\ ret'.params = params[1])]_vars

\* C8 witness: a loss_fn call has returned and the caller's Params tree is
\* the one it passed, whose raw parameters differ from the realised ones.
C8_Witness ==
    /\ LossReturned
    /\ params = Some(ret.params)
    /\ ret.calls[1].sample_of # ret.params.posterior

\* C9: apply returns exactly the surrogate realised from params["posterior"]
\* through the params bijector, the approximate normal prior and the bijector
\* given at construction; loss_fn samples from, and takes q_log_prob under,
\* that same realised surrogate.
C9_ApplyBundlesRealisedSurrogate ==
    /\ (ret.op = "apply" /\ ret.err = "") =>
          ret.out[1] = [posterior |-> Realised(ret.params),
                        approx_normal_prior |-> ApproxNormalPrior,
                        bijector |-> args[1].bijector]
    /\ LossReturned =>
          \A i \in DOMAIN ret.calls :
              /\ ret.calls[i].sample_of = Realised(ret.params)
              /\ ret.calls[i].log_prob_of = Realised(ret.params)

\* C9 witness: apply has returned a low-rank surrogate whose three realised
\* parameters are the images of the raw ones under the override list.
C9_Witness ==
    /\ ret.op = "apply"
    /\ ret.err = ""
    /\ args[1].vi_type = "low_rank"
    /\ args[1].ordered_posterior_bijectors # None
    /\ ret.params.posterior.leaves = <<1, 0, 1>>
    /\ ret.out[1].posterior.leaves = <<1, 2, 1>>

====
